---- MODULE Spec2Model ----
(***************************************************************************)
(* Pay-then-generate flow of the ImageGenerator component (both variants   *)
(* found in src/src/components/ui/sonner.tsx), together with the wallet    *)
(* hooks it observes, the /api/generate endpoint it calls                  *)
(* (src/src/app/api/generate/route.ts) and the "Send ETH" dialog of App    *)
(* (src/src/app/page.tsx).                                                 *)
(*                                                                         *)
(* A handler invocation is modelled as a record in `flows`: it carries the *)
(* values the handler closed over when it was invoked (prompt,             *)
(* uploadedImage, isConfirmed, toastId are consts of the render in which   *)
(* the handler was created) and its position (pc).  Each action is one     *)
(* run-to-completion step of the event loop: a UI event handler, a timer   *)
(* callback, a promise continuation, or a wallet / chain notification      *)
(* together with the effect it triggers.                                   *)
(***************************************************************************)
EXTENDS Integers, Sequences, FiniteSets, TLC

VARIABLES
  variant,              \* which ImageGenerator is mounted: "polling" | "fixed"
  prompt,               \* useState("")            (sequence of characters)
  address,              \* account.address present?
  isGenerating,         \* useState(false)
  generatedImage,       \* useState<GeneratedImage | null>(null)
  generationHistory,    \* useState<GeneratedImage[]>([])
  uploadedImage,        \* useState<File | null>(null)
  uploadedImagePreview, \* useState<string | null>(null)
  pendingReads,         \* FileReader reads in flight
  toastId,              \* useState<string | number | null>(null)
  toasts,               \* persistent toasts on screen (duration: Infinity)
  dismissTimers,        \* setTimeout(() => toast.dismiss(id), 0) not yet run
  notice,               \* text of the last toast.error / toast.success
  txs,                  \* payment requests handed to the wallet
  observed,             \* the mutation useSendTransaction reports (NoTx after reset)
  flows,                \* invocations of handleGenerate that passed validation
  requests,             \* requests issued to /api/generate
  clock,                \* source of `new Date()`
  app,                  \* App (page.tsx): the state of the "Send ETH" dialog
  exchange,             \* the request POST handled last, and its answer
  posts,                \* requests POST has handled
  providerRuns          \* calls of replicate.run

vars == << variant, prompt, address, isGenerating, generatedImage,
           generationHistory, uploadedImage, uploadedImagePreview,
           pendingReads, toastId, toasts, dismissTimers, notice, txs,
           observed, flows, requests, clock, app, exchange, posts,
           providerRuns >>

\* what no handler of ImageGenerator writes: the variant that is mounted, the
\* state of App and the bookkeeping of the endpoint
hostVars == << variant, app, exchange, posts, providerRuns >>

----------------------------------------------------------------------------
(* Bounds and program constants *)

MaxFlows == 2       \* invocations that pass validation (Spec)
MaxInputFlows == 1  \* invocations that pass validation (SpecInput)
MaxHistFlows == 6   \* invocations that pass validation (SpecHistory)
MaxPosts == 2       \* requests handled by the endpoint (SpecEndpoint)
MaxSends == 2       \* transactions sent from the dialog (SpecApp)

maxAttempts == 30   \* const maxAttempts = 30
HistoryKeep == 4    \* prev.slice(0, 4)
NoToast == 0        \* toastId === null
NoTx == 0           \* hash === undefined / mutation idle

MaxFileSize == 10 * 1024 * 1024

----------------------------------------------------------------------------
(* Values *)

NoFile == [name |-> "null", type |-> << >>, size |-> 0]

ImagePrefix == << "i", "m", "a", "g", "e", "/" >>

PngType == ImagePrefix \o << "p", "n", "g" >>
JpegType == ImagePrefix \o << "j", "p", "e", "g" >>
TextType == << "t", "e", "x", "t", "/", "p", "l", "a", "i", "n" >>
ImageNoSlash == << "i", "m", "a", "g", "e" >>

\* the files the user may pick in the file dialog
Files ==
  { [name |-> "small.jpg", type |-> JpegType, size |-> 1],
    [name |-> "edge.png", type |-> PngType, size |-> MaxFileSize],
    [name |-> "big.png", type |-> PngType, size |-> MaxFileSize + 1],
    [name |-> "notes.txt", type |-> TextType, size |-> 1],
    [name |-> "image", type |-> ImageNoSlash, size |-> 1] }

\* an image of exactly the largest size accepted
EdgePng == [name |-> "edge.png", type |-> PngType, size |-> MaxFileSize]

NoPreview == "null"

\* reader.readAsDataURL(file): the data URL of the file's bytes
DataURL(f) == f.name

\* the texts the user may put in the prompt input
Prompts ==
  { << >>, << " ", " " >>, << "a" >>, << " ", "b" >> }

NoImage == [imageUrl |-> "null", prompt |-> << >>, timestamp |-> 0]

IsSpace(c) == c \in { " ", "\t", "\n" }

RECURSIVE TrimStart(_)
TrimStart(s) ==
  IF s = << >> THEN s
  ELSE IF IsSpace(Head(s)) THEN TrimStart(Tail(s)) ELSE s

RECURSIVE TrimEnd(_)
TrimEnd(s) ==
  IF s = << >> THEN s
  ELSE IF IsSpace(s[Len(s)]) THEN TrimEnd(SubSeq(s, 1, Len(s) - 1)) ELSE s

\* String.prototype.trim
Trim(s) == TrimEnd(TrimStart(s))

\* String.prototype.startsWith
StartsWith(s, p) == Len(s) >= Len(p) /\ SubSeq(s, 1, Len(p)) = p

ReimaginedPrefix ==
  << "R", "e", "i", "m", "a", "g", "i", "n", "e", "d", ":", " " >>

----------------------------------------------------------------------------
(* Wallet hooks: useSendTransaction and useWaitForTransactionReceipt *)

\* isPending of useSendTransaction: the wallet has been asked and has not answered
IsTransactionPending(T, o) == o # NoTx /\ T[o].status = "asked"

\* data of useSendTransaction: the transaction hash, once the wallet has submitted
Hash(T, o) ==
  IF o # NoTx /\ T[o].status \in { "submitted", "confirmed" } THEN o ELSE NoTx

\* isLoading of useWaitForTransactionReceipt({hash})
IsConfirming(T, o) == Hash(T, o) # NoTx /\ T[Hash(T, o)].status = "submitted"

\* isSuccess of useWaitForTransactionReceipt({hash})
IsConfirmed(T, o) == Hash(T, o) # NoTx /\ T[Hash(T, o)].status = "confirmed"

isTransactionPending == IsTransactionPending(txs, observed)
isConfirming == IsConfirming(txs, observed)
isConfirmed == IsConfirmed(txs, observed)

\* sendTransaction({...}): a new request is handed to the wallet
SendTransaction(i) ==
  Append(txs, [status |-> "asked", flow |-> i, confInWait |-> FALSE])

Active(f) == f.pc # "done"

----------------------------------------------------------------------------
(* POST /api/generate *)

\* what replicate.run and output.url() give: a URL string, undefined, a value
\* that is not a string, or an exception
ProviderOutcomes == { "url", "nourl", "object", "throws" }

ServerEnvs == [token : BOOLEAN, provider : ProviderOutcomes]

JsUndefined == [t |-> "undefined", s |-> ""]
JsString(x) == [t |-> "string", s |-> x]
JsObject == [t |-> "object", s |-> "{}"]

\* JavaScript truthiness of a JSON value
Truthy(v) == (v.t = "string" /\ v.s # "") \/ v.t = "object"

\* formData.get('prompt') === null: the form has no prompt field
NoPrompt == << "null" >>

Respond(status, success, imageUrl, echoed, error, details, ran) ==
  [status |-> status, success |-> success, imageUrl |-> imageUrl,
   prompt |-> echoed, error |-> error, details |-> details,
   providerRan |-> ran]

\* the answer of the catch block
Caught(message, ran) ==
  Respond(500, FALSE, JsUndefined, << >>, JsString("Failed to generate image"),
          JsString(message), ran)

\* mutant: the prompt check is missing
POSTNoPromptCheck(req, env) ==
  IF ~req.multipart
  THEN Caught("Content-Type was not multipart/form-data", FALSE)
  ELSE IF ~env.token
  THEN Respond(500, FALSE, JsUndefined, << >>,
               JsString("Server configuration error: Replicate API token not configured"),
               JsUndefined, FALSE)
  ELSE IF env.provider = "throws"
  THEN Caught("provider error", TRUE)
  ELSE Respond(200, TRUE,
               IF env.provider = "url" THEN JsString("https://replicate/out.png")
               ELSE IF env.provider = "object" THEN JsObject
               ELSE JsUndefined,
               IF req.image # NoFile THEN ReimaginedPrefix \o req.prompt ELSE req.prompt,
               JsUndefined, JsUndefined, TRUE)

POST(req, env) ==
  IF ~req.multipart
  THEN \* request.formData() throws
       Caught("Content-Type was not multipart/form-data", FALSE)
  ELSE IF req.prompt = NoPrompt \/ req.prompt = << >>
  THEN \* !prompt: null or ""
       Respond(400, FALSE, JsUndefined, << >>, JsString("Prompt is required"),
               JsUndefined, FALSE)
  ELSE IF ~env.token
  THEN Respond(500, FALSE, JsUndefined, << >>,
               JsString("Server configuration error: Replicate API token not configured"),
               JsUndefined, FALSE)
  ELSE IF env.provider = "throws"
  THEN Caught("provider error", TRUE)
  ELSE Respond(200, TRUE,
               IF env.provider = "url" THEN JsString("https://replicate/out.png")
               ELSE IF env.provider = "object" THEN JsObject
               ELSE JsUndefined,
               IF req.image # NoFile THEN ReimaginedPrefix \o req.prompt ELSE req.prompt,
               JsUndefined, JsUndefined, TRUE)

\* response.ok
Ok(resp) == resp.status >= 200 /\ resp.status <= 299

\* the requests any HTTP client may post: with or without a multipart body,
\* a prompt field and an image field
DirectRequests ==
  [flow : { 0 }, multipart : BOOLEAN, prompt : Prompts \cup { NoPrompt },
   image : { NoFile, EdgePng }]

NoExchange ==
  [req |-> [flow |-> 0, multipart |-> FALSE, prompt |-> NoPrompt, image |-> NoFile],
   env |-> [token |-> FALSE, provider |-> "throws"],
   resp |-> Respond(0, FALSE, JsUndefined, << >>, JsUndefined, JsUndefined, FALSE)]

InitEndpoint ==
  /\ exchange = NoExchange
  /\ posts = 0
  /\ providerRuns = 0

\* export async function POST(request): one request is handled; the handler
\* keeps no state of its own
Post(req, env) ==
  /\ posts < MaxPosts
  /\ exchange' = [req |-> req, env |-> env, resp |-> POST(req, env)]
  /\ posts' = posts + 1
  /\ providerRuns' = providerRuns + (IF POST(req, env).providerRan THEN 1 ELSE 0)
  /\ UNCHANGED << variant, app, prompt, address, isGenerating, generatedImage,
                  generationHistory, uploadedImage, uploadedImagePreview,
                  pendingReads, toastId, toasts, dismissTimers, notice, txs,
                  observed, flows, requests, clock >>

----------------------------------------------------------------------------
(* App (page.tsx): the "Send ETH" dialog *)

Digits == { "0", "1", "2", "3", "4", "5", "6", "7", "8", "9" }

HexDigits == Digits \cup { "a", "b", "c", "d", "e", "f" }

\* viem isAddress for addresses without upper-case letters (for those it
\* needs no checksum): 0x followed by 40 hexadecimal digits
IsAddress(a) ==
  /\ Len(a) = 42
  /\ a[1] = "0" /\ a[2] = "x"
  /\ \A k \in 3..42 : a[k] \in HexDigits

Alice == << "0", "x" >> \o [k \in 1..40 |-> "a"]
NoHexPrefix == [k \in 1..42 |-> "a"]

\* the texts the user may put in the recipient input
Recipients == { << >>, << "0", "x", "1" >>, NoHexPrefix, Alice }

\* the values the browser gives for the number input: "" or a valid
\* floating-point number, which may have an exponent
Amounts ==
  { << >>, << "1" >>, << "0", ".", "5" >>, << "1", "e", "3" >> }

EtherDecimals == 18

Unsigned(s) == IF s # << >> /\ s[1] = "-" THEN Tail(s) ELSE s

\* viem parseUnits accepts /^(-?)([0-9]*)\.?([0-9]*)$/ and throws otherwise
IsDecimal(s) ==
  /\ \A k \in 1..Len(Unsigned(s)) : Unsigned(s)[k] \in Digits \cup { "." }
  /\ Cardinality({ k \in 1..Len(Unsigned(s)) : Unsigned(s)[k] = "." }) <= 1

RECURSIVE IntegerPart(_)
IntegerPart(s) ==
  IF s = << >> \/ Head(s) = "." THEN << >>
  ELSE << Head(s) >> \o IntegerPart(Tail(s))

RECURSIVE FractionPart(_)
FractionPart(s) ==
  IF s = << >> THEN << >>
  ELSE IF Head(s) = "." THEN Tail(s) ELSE FractionPart(Tail(s))

RECURSIVE StripZeros(_)
StripZeros(s) ==
  IF Len(s) > 1 /\ Head(s) = "0" THEN StripZeros(Tail(s)) ELSE s

\* parseEther(amount) for a decimal with at most 18 fraction digits: the
\* amount in wei, written in decimal
ParseEther(s) ==
  LET frac == FractionPart(Unsigned(s))
      wei == StripZeros(IntegerPart(Unsigned(s)) \o frac
                          \o [k \in 1..(EtherDecimals - Len(frac)) |-> "0"])
  IN  IF s # << >> /\ s[1] = "-" /\ wei # << "0" >> THEN << "-" >> \o wei ELSE wei

InitApp ==
  app = [isDialogOpen |-> FALSE, toAddress |-> << >>, amount |-> << >>,
         toastId |-> NoToast, toasts |-> { }, dismissTimers |-> { },
         notice |-> "", description |-> << >>, txs |-> << >>,
         observed |-> NoTx]

generatorVars ==
  << variant, exchange, posts, providerRuns, prompt, isGenerating,
     generatedImage, generationHistory, uploadedImage, uploadedImagePreview,
     pendingReads, toastId, toasts, dismissTimers, notice, txs, observed,
     flows, requests, clock >>

\* <Dialog open={isDialogOpen} onOpenChange={setIsDialogOpen}>, rendered
\* while the account is connected
OpenChange(open) ==
  /\ address
  /\ app.isDialogOpen # open
  /\ app' = [app EXCEPT !.isDialogOpen = open]
  /\ UNCHANGED << generatorVars, address >>

\* onChange={(e) => setToAddress(e.target.value)}
SetToAddress(a) ==
  /\ address /\ app.isDialogOpen
  /\ a # app.toAddress
  /\ app' = [app EXCEPT !.toAddress = a]
  /\ UNCHANGED << generatorVars, address >>

\* onChange={(e) => setAmount(e.target.value)}
SetAmount(x) ==
  /\ address /\ app.isDialogOpen
  /\ x # app.amount
  /\ app' = [app EXCEPT !.amount = x]
  /\ UNCHANGED << generatorVars, address >>

\* the "Send ETH" button's disabled attribute, negated
SendEnabled ==
  /\ app.amount # << >>
  /\ app.toAddress # << >>
  /\ ~IsConfirming(app.txs, app.observed)
  /\ ~IsTransactionPending(app.txs, app.observed)

\* if (!amount || !isAddress(toAddress))
InputError == app.amount = << >> \/ ~IsAddress(app.toAddress)

\* description: `Sending ${amount} ETH to ${toAddress}` and the like
Describe(verb, amount, to) == << verb, amount, to >>

\* handleSend
handleSend(limit) ==
  IF InputError
  THEN app' = [app EXCEPT !.notice = "Invalid input",
                          !.description = << >>]
  ELSE IF ~IsDecimal(app.amount)
  THEN \* parseEther throws before sendTransaction is called
       app' = [app EXCEPT !.notice = "Transaction failed",
                          !.description = << >>]
  ELSE /\ Len(app.txs) < limit
       /\ app' = [app EXCEPT
                    !.txs = Append(@, [status |-> "asked",
                                       to |-> app.toAddress,
                                       value |-> ParseEther(app.amount)]),
                    !.observed = Len(app.txs) + 1,
                    !.toasts = @ \cup { Len(app.txs) + 1 },
                    !.toastId = Len(app.txs) + 1,
                    !.isDialogOpen = FALSE,
                    !.amount = << >>,
                    !.toAddress = << >>]

ClickSend(limit) ==
  /\ address /\ app.isDialogOpen
  /\ SendEnabled
  /\ handleSend(limit)
  /\ UNCHANGED << generatorVars, address >>

\* the wallet's answer to App's request
SendApprove(t) ==
  /\ app.txs[t].status = "asked"
  /\ app' = [app EXCEPT !.txs[t].status = "submitted"]
  /\ UNCHANGED << generatorVars, address >>

SendReject(t) ==
  /\ app.txs[t].status = "asked"
  /\ app' = [app EXCEPT !.txs[t].status = "rejected"]
  /\ UNCHANGED << generatorVars, address >>

\* the chain includes App's transaction, and
\* useEffect(..., [isConfirmed, toastId, amount, toAddress, resetTransaction])
\* runs in the same turn
SendConfirm(t) ==
  /\ app.txs[t].status = "submitted"
  /\ LET T == [app.txs EXCEPT ![t].status = "confirmed"] IN
       IF IsConfirmed(T, app.observed) /\ app.toastId # NoToast
       THEN app' = [app EXCEPT
                     !.txs = T,
                     !.notice = "Transaction successful!",
                     !.description = Describe("Sent", app.amount, app.toAddress),
                     !.dismissTimers = @ \cup { app.toastId },
                     !.toastId = NoToast,
                     !.observed = NoTx]
       ELSE app' = [app EXCEPT !.txs = T]
  /\ UNCHANGED << generatorVars, address >>

\* setTimeout(() => { toast.dismiss(toastId) }, 0)
SendDismissTimer(id) ==
  /\ id \in app.dismissTimers
  /\ app' = [app EXCEPT !.dismissTimers = @ \ { id }, !.toasts = @ \ { id }]
  /\ UNCHANGED << generatorVars, address >>

----------------------------------------------------------------------------
(* ImageGenerator: state after mounting *)

InitComponent ==
  /\ isGenerating = FALSE
  /\ generatedImage = NoImage
  /\ generationHistory = << >>
  /\ uploadedImage = NoFile
  /\ uploadedImagePreview = NoPreview
  /\ pendingReads = { }
  /\ toastId = NoToast
  /\ toasts = { }
  /\ dismissTimers = { }
  /\ notice = ""
  /\ txs = << >>
  /\ observed = NoTx
  /\ flows = << >>
  /\ requests = << >>
  /\ clock = 1
  /\ InitApp
  /\ InitEndpoint

----------------------------------------------------------------------------
(* Prompt input, wallet connection, file upload *)

\* onChange={(e) => setPrompt(e.target.value)}
SetPrompt(p) ==
  /\ p # prompt
  /\ prompt' = p
  /\ UNCHANGED << hostVars, address, isGenerating, generatedImage,
                  generationHistory, uploadedImage, uploadedImagePreview,
                  pendingReads, toastId, toasts, dismissTimers, notice, txs,
                  observed, flows, requests, clock >>

\* connect({ connector }) / disconnect(): account.address appears / disappears
Connect ==
  /\ ~address
  /\ address' = TRUE
  /\ UNCHANGED << hostVars, prompt, isGenerating, generatedImage,
                  generationHistory, uploadedImage, uploadedImagePreview,
                  pendingReads, toastId, toasts, dismissTimers, notice, txs,
                  observed, flows, requests, clock >>

Disconnect ==
  /\ address
  /\ address' = FALSE
  /\ UNCHANGED << hostVars, prompt, isGenerating, generatedImage,
                  generationHistory, uploadedImage, uploadedImagePreview,
                  pendingReads, toastId, toasts, dismissTimers, notice, txs,
                  observed, flows, requests, clock >>

\* mutant: the size check rejects a file of exactly 10 MiB
UploadErrorStrict(file) ==
  IF ~StartsWith(file.type, ImagePrefix) THEN "Please upload an image file"
  ELSE IF file.size >= MaxFileSize THEN "File size must be less than 10MB"
  ELSE ""

\* the two checks of handleFileUpload; "" when the file is accepted
UploadError(file) ==
  IF ~StartsWith(file.type, ImagePrefix) THEN "Please upload an image file"
  ELSE IF file.size > MaxFileSize THEN "File size must be less than 10MB"
  ELSE ""

\* "Choose File" is rendered while there is no preview and disabled while generating
ChooseFileEnabled == uploadedImagePreview = NoPreview /\ ~isGenerating

handleFileUpload(file) ==
  /\ ChooseFileEnabled
  /\ IF UploadError(file) # ""
     THEN /\ notice' = UploadError(file)
          /\ UNCHANGED << uploadedImage, pendingReads >>
     ELSE /\ uploadedImage' = file
          /\ pendingReads' = pendingReads \cup { file }
          /\ notice' = "Image uploaded successfully!"
  /\ UNCHANGED << hostVars, prompt, address, isGenerating, generatedImage,
                  generationHistory, uploadedImagePreview, toastId, toasts,
                  dismissTimers, txs, observed, flows, requests, clock >>

\* reader.onload
ReaderLoad(file) ==
  /\ file \in pendingReads
  /\ pendingReads' = pendingReads \ { file }
  /\ uploadedImagePreview' = DataURL(file)
  /\ UNCHANGED << hostVars, prompt, address, isGenerating, generatedImage,
                  generationHistory, uploadedImage, toastId, toasts,
                  dismissTimers, notice, txs, observed, flows, requests, clock >>

\* the x button over the preview
clearUploadedImage ==
  /\ uploadedImagePreview # NoPreview
  /\ uploadedImage' = NoFile
  /\ uploadedImagePreview' = NoPreview
  /\ UNCHANGED << hostVars, prompt, address, isGenerating, generatedImage,
                  generationHistory, pendingReads, toastId, toasts,
                  dismissTimers, notice, txs, observed, flows, requests, clock >>

----------------------------------------------------------------------------
(* handleGenerate *)

inputVars == << hostVars, prompt, address, uploadedImage, uploadedImagePreview,
                pendingReads >>

TimeoutMessage == "Payment confirmation timeout - transaction may have failed"

\* mutant: the prompt is checked without trimming
ValidationErrorNoTrim ==
  IF prompt = << >> THEN "Please enter a prompt"
  ELSE IF ~address THEN "Please connect your wallet first"
  ELSE ""

\* the two synchronous checks of handleGenerate; "" when both pass
ValidationError ==
  IF Trim(prompt) = << >> THEN "Please enter a prompt"
  ELSE IF ~address THEN "Please connect your wallet first"
  ELSE ""

\* mutant: the Enter key does not look at isGenerating
EnterEnabledNoGuard == ~isTransactionPending

\* onKeyDown: e.key === "Enter" && !isGenerating && !isTransactionPending
EnterEnabled == ~isGenerating /\ ~isTransactionPending

\* the Generate button's disabled attribute, negated
ButtonEnabled ==
  /\ Trim(prompt) # << >>
  /\ address
  /\ ~isGenerating
  /\ ~isTransactionPending
  /\ ~isConfirming

\* mutant: the image is never appended to the form data
FormDataNoImage(f) ==
  [flow |-> f.id, multipart |-> TRUE, prompt |-> f.prompt, image |-> NoFile]

\* formData: the prompt and, when an image is attached, the image
FormData(f) ==
  [flow |-> f.id, multipart |-> TRUE, prompt |-> f.prompt,
   image |-> f.uploadedImage]

\* mutant: the wait loop has no ceiling
LoopContinuesNoCeiling(f, attempts) == ~f.isConfirmed

\* the condition of the wait loop, read from the handler's closure
LoopContinues(f, attempts) == ~f.isConfirmed /\ attempts < maxAttempts

\* mutant: the check after the loop is missing
TimedOutNever(f) == FALSE

\* if (!isConfirmed) throw new Error("Payment confirmation timeout ...")
TimedOut(f) == ~f.isConfirmed

\* the toast that finally dismisses: the handler's own (render-time) toastId
FinallyToast(f) == f.toastId

\* finally { setIsGenerating(false); resetTransaction(); if (toastId) {...} }
Finally(f, result) ==
  /\ flows' = [flows EXCEPT ![f.id] = [f EXCEPT !.pc = "done", !.result = result]]
  /\ isGenerating' = FALSE
  /\ observed' = NoTx
  /\ IF variant = "polling" /\ FinallyToast(f) # NoToast
     THEN /\ toasts' = toasts \ { FinallyToast(f) }
          /\ toastId' = NoToast
     ELSE UNCHANGED << toasts, toastId >>

\* the requests issued and the payments submitted by invocation i
RequestsOf(i) == { r \in 1..Len(requests) : requests[r].flow = i }

PaymentsOf(i) == { t \in 1..Len(txs) : txs[t].flow = i }

\* mutant: a failed generation request is sent once more
CatchRetry(f, message) ==
  /\ notice' = message
  /\ IF f.pc = "fetch" /\ Cardinality(RequestsOf(f.id)) < 2
     THEN /\ requests' = Append(requests, FormData(f))
          /\ flows' = [flows EXCEPT ![f.id] = f]
          /\ UNCHANGED << isGenerating, observed, toasts, toastId >>
     ELSE /\ Finally(f, message)
          /\ UNCHANGED requests
  /\ UNCHANGED << generatedImage, generationHistory >>

\* catch (error) { toast.error(error.message) } finally { ... }
Catch(f, message) ==
  /\ notice' = message
  /\ Finally(f, message)
  /\ UNCHANGED << generatedImage, generationHistory, requests >>

\* fetch("/api/generate", { method: "POST", body: formData }) is issued
IssueRequest(f) ==
  /\ requests' = Append(requests, FormData(f))
  /\ flows' = [flows EXCEPT ![f.id] = [f EXCEPT !.pc = "fetch"]]
  /\ UNCHANGED << isGenerating, observed, toasts, toastId, notice,
                  generatedImage, generationHistory >>

\* the invocation that starts now, with the values of the current render
NewFlow ==
  [id |-> Len(flows) + 1,
   pc |-> IF variant = "polling" THEN "wait" ELSE "delay",
   prompt |-> prompt,
   uploadedImage |-> uploadedImage,
   isConfirmed |-> isConfirmed,
   toastId |-> toastId,
   ownToast |-> IF variant = "polling" THEN Len(flows) + 1 ELSE NoToast,
   attempts |-> 0,
   tx |-> Len(txs) + 1,
   result |-> ""]

\* handleGenerate, up to its first await
handleGenerate(limit) ==
  IF ValidationError # ""
  THEN /\ notice' = ValidationError
       /\ UNCHANGED << inputVars, isGenerating, generatedImage,
                       generationHistory, toastId, toasts, dismissTimers,
                       txs, observed, flows, requests, clock >>
  ELSE LET f == NewFlow IN
       /\ Len(flows) < limit
       /\ isGenerating' = TRUE
       /\ txs' = SendTransaction(f.id)
       /\ observed' = Len(txs')
       /\ IF variant = "polling"
          THEN toasts' = toasts \cup { f.ownToast } /\ toastId' = f.ownToast
          ELSE UNCHANGED << toasts, toastId >>
       /\ IF variant = "polling" /\ ~LoopContinues(f, 0)
          THEN \* the loop is skipped; maxAttempts > 0, so isConfirmed was true
               /\ flows' = Append(flows, [f EXCEPT !.pc = "fetch"])
               /\ requests' = Append(requests, FormData(f))
          ELSE /\ flows' = Append(flows, f)
               /\ UNCHANGED requests
       /\ UNCHANGED notice
       /\ UNCHANGED << inputVars, generatedImage, generationHistory,
                       dismissTimers, clock >>

PressEnter(limit) == EnterEnabled /\ handleGenerate(limit)

ClickGenerate(limit) == ButtonEnabled /\ handleGenerate(limit)

\* one turn of the wait loop: the 1000 ms timer fires
Poll(i) ==
  /\ flows[i].pc = "wait"
  /\ LET f == [flows[i] EXCEPT !.attempts = @ + 1] IN
       IF ~f.isConfirmed /\ LoopContinues(f, f.attempts)
       THEN /\ flows' = [flows EXCEPT ![i] = f]
            /\ UNCHANGED << isGenerating, observed, toasts, toastId, notice,
                            generatedImage, generationHistory, requests >>
       ELSE IF TimedOut(f)
       THEN Catch(f, TimeoutMessage)
       ELSE IssueRequest(f)
  /\ UNCHANGED << inputVars, dismissTimers, txs, clock >>

\* mutant: the fixed-delay variant gives up unless the payment is confirmed
DelayChecksPayment(i) ==
  /\ flows[i].pc = "delay"
  /\ IF txs[flows[i].tx].status = "confirmed"
     THEN IssueRequest(flows[i])
     ELSE Catch(flows[i], TimeoutMessage)
  /\ UNCHANGED << inputVars, dismissTimers, txs, clock >>

\* fixed-delay variant: the single 1000 ms timer fires
Delay(i) ==
  /\ flows[i].pc = "delay"
  /\ IssueRequest(flows[i])
  /\ UNCHANGED << inputVars, dismissTimers, txs, clock >>

\* mutant: nothing is dropped from the history
PushHistoryNoCap(newImage, prev) == << newImage >> \o prev

\* mutant: the new result is not put into the history
PushHistoryOmitsNew(newImage, prev) ==
  SubSeq(prev, 1, IF Len(prev) < HistoryKeep + 1 THEN Len(prev) ELSE HistoryKeep + 1)

\* prev => [newImage, ...prev.slice(0, 4)]
PushHistory(newImage, prev) ==
  << newImage >> \o SubSeq(prev, 1, IF Len(prev) < HistoryKeep THEN Len(prev) ELSE HistoryKeep)

\* mutant: the result is built from the inputs as they are when the answer
\* arrives
NewImageReadsState(f, resp) ==
  [imageUrl |-> resp.imageUrl.s,
   prompt |-> IF uploadedImage # NoFile THEN ReimaginedPrefix \o prompt ELSE prompt,
   timestamp |-> clock]

\* the GeneratedImage the handler builds from the response
NewImage(f, resp) ==
  [imageUrl |-> resp.imageUrl.s,
   prompt |-> IF f.uploadedImage # NoFile THEN ReimaginedPrefix \o f.prompt ELSE f.prompt,
   timestamp |-> clock]

\* mutant: the image URL of a 2xx answer is not validated
FetchRespondNoUrlCheck(i, env) ==
  /\ flows[i].pc = "fetch"
  /\ LET f == flows[i]
         resp == POST(FormData(f), env) IN
       IF ~Ok(resp)
       THEN /\ Catch(f, IF Truthy(resp.error) THEN resp.error.s ELSE "Failed to generate image")
            /\ UNCHANGED clock
       ELSE /\ generatedImage' = NewImage(f, resp)
            /\ generationHistory' = PushHistory(NewImage(f, resp), generationHistory)
            /\ notice' = "Image generated successfully!"
            /\ Finally(f, "success")
            /\ clock' = clock + 1
            /\ UNCHANGED requests
  /\ UNCHANGED << inputVars, dismissTimers, txs >>

\* the response arrives and response.json() resolves
FetchRespond(i, env) ==
  /\ flows[i].pc = "fetch"
  /\ LET f == flows[i]
         resp == POST(FormData(f), env) IN
       IF ~Ok(resp)
       THEN /\ Catch(f, IF Truthy(resp.error) THEN resp.error.s ELSE "Failed to generate image")
            /\ UNCHANGED clock
       ELSE IF ~Truthy(resp.imageUrl) \/ resp.imageUrl.t # "string"
       THEN /\ Catch(f, "Invalid image URL received from API")
            /\ clock' = clock + 1
       ELSE /\ generatedImage' = NewImage(f, resp)
            /\ generationHistory' = PushHistory(NewImage(f, resp), generationHistory)
            /\ notice' = "Image generated successfully!"
            /\ Finally(f, "success")
            /\ clock' = clock + 1
            /\ UNCHANGED requests
  /\ UNCHANGED << inputVars, dismissTimers, txs >>

\* fetch rejects (transport failure)
FetchFail(i) ==
  /\ flows[i].pc = "fetch"
  /\ Catch(flows[i], "Failed to fetch")
  /\ UNCHANGED << inputVars, dismissTimers, txs, clock >>

----------------------------------------------------------------------------
(* History thumbnails *)

\* the "Recent Generations" grid is rendered
HistoryShown ==
  /\ Len(generationHistory) > 1
  /\ variant = "polling" => (generatedImage = NoImage /\ ~isGenerating)

\* onClick={() => setGeneratedImage(image)} on generationHistory.slice(1)
SelectHistory(k) ==
  /\ HistoryShown
  /\ k \in 2..Len(generationHistory)
  /\ generatedImage' = generationHistory[k]
  /\ UNCHANGED << inputVars, isGenerating, generationHistory, toastId, toasts,
                  dismissTimers, notice, txs, observed, flows, requests, clock >>

----------------------------------------------------------------------------
(* Wallet and chain *)

\* the user approves the request in the wallet: the transaction is submitted
WalletApprove(t) ==
  /\ txs[t].status = "asked"
  /\ txs' = [txs EXCEPT ![t].status = "submitted"]
  /\ UNCHANGED << inputVars, isGenerating, generatedImage, generationHistory,
                  toastId, toasts, dismissTimers, notice, observed, flows,
                  requests, clock >>

\* the user rejects the request in the wallet
WalletReject(t) ==
  /\ txs[t].status = "asked"
  /\ txs' = [txs EXCEPT ![t].status = "rejected"]
  /\ UNCHANGED << inputVars, isGenerating, generatedImage, generationHistory,
                  toastId, toasts, dismissTimers, notice, observed, flows,
                  requests, clock >>

\* useEffect(..., [isConfirmed, toastId, resetTransaction]) fires
EffectFires(T, o, tid) == variant = "polling" /\ IsConfirmed(T, o) /\ tid # NoToast

\* mutant: a confirmation that arrives after the timeout resumes the flow
ChainConfirmResumes(t) ==
  /\ txs[t].status = "submitted"
  /\ txs' = [txs EXCEPT ![t].status = "confirmed",
                        ![t].confInWait = (flows[txs[t].flow].pc = "wait")]
  /\ IF EffectFires(txs', observed, toastId)
     THEN /\ notice' = "Payment confirmed!"
          /\ dismissTimers' = dismissTimers \cup { toastId }
          /\ toastId' = NoToast
          /\ observed' = NoTx
     ELSE UNCHANGED << notice, dismissTimers, toastId, observed >>
  /\ IF flows[txs[t].flow].result = TimeoutMessage
     THEN requests' = Append(requests, FormData(flows[txs[t].flow]))
     ELSE UNCHANGED requests
  /\ UNCHANGED << inputVars, isGenerating, generatedImage, generationHistory,
                  toasts, flows, clock >>

\* the chain includes the transaction; the receipt hook reports it and the
\* confirmation effect of the polling variant runs in the same turn
ChainConfirm(t) ==
  /\ txs[t].status = "submitted"
  /\ txs' = [txs EXCEPT ![t].status = "confirmed",
                        ![t].confInWait = (flows[txs[t].flow].pc = "wait")]
  /\ IF EffectFires(txs', observed, toastId)
     THEN /\ notice' = "Payment confirmed!"
          /\ dismissTimers' = dismissTimers \cup { toastId }
          /\ toastId' = NoToast
          /\ observed' = NoTx
     ELSE UNCHANGED << notice, dismissTimers, toastId, observed >>
  /\ UNCHANGED << inputVars, isGenerating, generatedImage, generationHistory,
                  toasts, flows, requests, clock >>

\* setTimeout(() => { toast.dismiss(toastId) }, 0)
DismissTimer(id) ==
  /\ id \in dismissTimers
  /\ dismissTimers' = dismissTimers \ { id }
  /\ toasts' = toasts \ { id }
  /\ UNCHANGED << inputVars, isGenerating, generatedImage, generationHistory,
                  toastId, notice, txs, observed, flows, requests, clock >>

----------------------------------------------------------------------------
(* Specifications *)

\* prompt input, wallet connection and file upload
InputNext ==
  \/ \E p \in Prompts : SetPrompt(p)
  \/ Connect
  \/ Disconnect
  \/ \E file \in Files : handleFileUpload(file)
  \/ \E file \in Files : ReaderLoad(file)
  \/ clearUploadedImage

\* the steps of handleGenerate
FlowNext(limit) ==
  \/ PressEnter(limit)
  \/ ClickGenerate(limit)
  \/ \E i \in 1..Len(flows) : Poll(i)
  \/ \E i \in 1..Len(flows) : Delay(i)
  \/ \E i \in 1..Len(flows), env \in ServerEnvs : FetchRespond(i, env)
  \/ \E i \in 1..Len(flows) : FetchFail(i)

\* the wallet, the chain and the deferred dismissal
WalletNext ==
  \/ \E t \in 1..Len(txs) : WalletApprove(t)
  \/ \E t \in 1..Len(txs) : WalletReject(t)
  \/ \E t \in 1..Len(txs) : ChainConfirm(t)
  \/ \E id \in 1..Len(flows) : DismissTimer(id)

\* Spec: the pay-then-generate flow, the wallet and the chain, for a connected
\* user who has entered a prompt and has attached an image or not
InitUploads ==
  \/ uploadedImage = NoFile /\ uploadedImagePreview = NoPreview
  \/ uploadedImage = EdgePng /\ uploadedImagePreview = DataURL(EdgePng)

ValidPrompts == { p \in Prompts : Trim(p) # << >> }

Init ==
  /\ variant \in { "polling", "fixed" }
  /\ prompt \in ValidPrompts
  /\ address = TRUE
  /\ isGenerating = FALSE
  /\ generatedImage = NoImage
  /\ generationHistory = << >>
  /\ InitUploads
  /\ pendingReads = { }
  /\ toastId = NoToast
  /\ toasts = { }
  /\ dismissTimers = { }
  /\ notice = ""
  /\ txs = << >>
  /\ observed = NoTx
  /\ flows = << >>
  /\ requests = << >>
  /\ clock = 1
  /\ InitApp
  /\ InitEndpoint

Next ==
  \/ FlowNext(MaxFlows)
  \/ WalletNext
  \/ \E k \in 1..(HistoryKeep + 1) : SelectHistory(k)

Spec == Init /\ [][Next]_vars

\* SpecInput: a user who edits the prompt, connects and disconnects the
\* wallet and uploads files around the flows, and never answers the wallet
InitInput ==
  /\ variant \in { "polling", "fixed" }
  /\ prompt = << >>
  /\ address = FALSE
  /\ InitComponent

\* the server answers with an image or with a provider failure
BasicEnvs == { env \in ServerEnvs : env.token /\ env.provider \in { "url", "throws" } }

NextInput ==
  \/ InputNext
  \/ PressEnter(MaxInputFlows)
  \/ ClickGenerate(MaxInputFlows)
  \/ \E i \in 1..Len(flows) : Poll(i)
  \/ \E i \in 1..Len(flows) : Delay(i)
  \/ \E i \in 1..Len(flows), env \in BasicEnvs : FetchRespond(i, env)

SpecInput == InitInput /\ [][NextInput]_vars

\* SpecHistory: repeated generations of the fixed-delay variant against a
\* server that answers with an image or with a provider failure
InitHistory ==
  /\ variant = "fixed"
  /\ prompt \in ValidPrompts
  /\ address = TRUE
  /\ InitComponent

NextHistory ==
  \/ PressEnter(MaxHistFlows)
  \/ ClickGenerate(MaxHistFlows)
  \/ \E i \in 1..Len(flows) : Delay(i)
  \/ \E i \in 1..Len(flows), env \in BasicEnvs : FetchRespond(i, env)
  \/ \E k \in 1..(HistoryKeep + 1) : SelectHistory(k)

SpecHistory == InitHistory /\ [][NextHistory]_vars

\* SpecFair: Spec with the scheduling the runtime provides: a timer that is
\* set fires, and a request that is issued is answered or fails
Fairness ==
  \A i \in 1..MaxFlows :
    /\ WF_vars(i <= Len(flows) /\ Poll(i))
    /\ WF_vars(i <= Len(flows) /\ Delay(i))
    /\ WF_vars(i <= Len(flows)
                 /\ (FetchFail(i) \/ \E env \in ServerEnvs : FetchRespond(i, env)))

SpecFair == Init /\ [][Next]_vars /\ Fairness

\* SpecEndpoint: the endpoint, posted to by any HTTP client
InitEndpointOnly ==
  /\ variant = "fixed"
  /\ prompt = << >>
  /\ address = FALSE
  /\ InitComponent

NextEndpoint == \E req \in DirectRequests, env \in ServerEnvs : Post(req, env)

SpecEndpoint == InitEndpointOnly /\ [][NextEndpoint]_vars

\* SpecApp: the "Send ETH" dialog of App, its wallet and the chain
InitAppOnly ==
  /\ variant = "fixed"
  /\ prompt = << >>
  /\ address = FALSE
  /\ InitComponent

NextApp ==
  \/ Connect
  \/ Disconnect
  \/ \E open \in BOOLEAN : OpenChange(open)
  \/ \E a \in Recipients : SetToAddress(a)
  \/ \E x \in Amounts : SetAmount(x)
  \/ ClickSend(MaxSends)
  \/ \E t \in 1..Len(app.txs) : SendApprove(t)
  \/ \E t \in 1..Len(app.txs) : SendReject(t)
  \/ \E t \in 1..Len(app.txs) : SendConfirm(t)
  \/ \E id \in 1..Len(app.txs) : SendDismissTimer(id)

SpecApp == InitAppOnly /\ [][NextApp]_vars

\* the confirmation effect never has work left between two turns
EffectQuiescent == ~EffectFires(txs, observed, toastId)

\* the handler never closes over isConfirmed = true: a hash is observed only
\* while the flow that sent it is running, and both the effect and finally
\* reset the transaction
ClosureNeverConfirmed == \A i \in 1..Len(flows) : ~flows[i].isConfirmed

\* hence no invocation of the polling variant ever issues a request
PollingNeverRequests == variant = "polling" => requests = << >>

----------------------------------------------------------------------------
(* Properties *)

ActiveFlows == { i \in 1..Len(flows) : Active(flows[i]) }

\* the handler of flow i has returned and no later invocation has started
LastFinished(i) == i = Len(flows) /\ flows[i].pc = "done"

WhitespaceOnly(s) == \A k \in 1..Len(s) : IsSpace(s[k])

\* C2: in the polling variant, a flow whose own payment was confirmed while it
\* was waiting (within the 30-poll ceiling) has issued exactly one request to
\* /api/generate, carrying the prompt entered, and a successful result is in
\* the history
C2_ConfirmedWithinCeilingGenerates ==
  \A i \in 1..Len(flows) :
    (variant = "polling" /\ flows[i].pc = "done" /\ txs[flows[i].tx].confInWait)
      => /\ Cardinality(RequestsOf(i)) = 1
         /\ \A r \in RequestsOf(i) : requests[r].prompt = flows[i].prompt
         /\ flows[i].result = "success"
              => \E k \in 1..Len(generationHistory) :
                   generationHistory[k].prompt \in
                     { flows[i].prompt, ReimaginedPrefix \o flows[i].prompt }

\* C3: when the payment of a waiting flow is confirmed, the next check of the
\* wait loop ends the loop and the flow goes on to the generation request
C3_LoopExitsOnConfirmation ==
  [][\A i \in 1..Len(flows) :
       (/\ flows[i].pc = "wait"
        /\ txs[flows[i].tx].status = "confirmed"
        /\ flows'[i].attempts = flows[i].attempts + 1)
         => flows'[i].pc = "fetch"]_vars

\* C4: a polling flow that has not seen the confirmation after 30 polls ends
\* with the timeout error, without any request to /api/generate and without
\* touching generatedImage and generationHistory
C4_TimeoutAborts ==
  [][\A i \in 1..Len(flows) :
       (/\ variant = "polling"
        /\ flows[i].pc = "wait"
        /\ ~flows[i].isConfirmed
        /\ flows'[i].attempts = maxAttempts)
         => /\ flows'[i].pc = "done"
            /\ flows'[i].result = TimeoutMessage
            /\ notice' = TimeoutMessage
            /\ RequestsOf(i) = { }
            /\ requests' = requests
            /\ UNCHANGED << generatedImage, generationHistory >>]_vars

C4_Witness ==
  \E i \in 1..Len(flows) :
    /\ variant = "polling"
    /\ flows[i].pc = "done"
    /\ flows[i].attempts = maxAttempts
    /\ flows[i].result = TimeoutMessage
    /\ RequestsOf(i) = { }

\* C5: an invocation of handleGenerate with an empty or whitespace-only prompt,
\* or without a wallet address, submits no payment, issues no request and
\* leaves isGenerating, generatedImage and generationHistory unchanged
C5_InvalidInputDoesNothing ==
  [][((WhitespaceOnly(prompt) \/ ~address)
        /\ (PressEnter(MaxInputFlows) \/ ClickGenerate(MaxInputFlows)))
       => UNCHANGED << txs, observed, requests, flows, isGenerating,
                       generatedImage, generationHistory >>]_vars

C5_Witness ==
  /\ prompt = << " ", " " >>
  /\ address
  /\ notice = "Please enter a prompt"
  /\ txs = << >>
  /\ requests = << >>
  /\ ~isGenerating

\* C6: once a polling flow has returned (and no later one has started),
\* isGenerating is false, the transaction state is reset, toastId is null and
\* the flow's own payment toast is dismissed (or its dismissal is scheduled)
C6_CleanupOnEveryExit ==
  \A i \in 1..Len(flows) :
    (variant = "polling" /\ LastFinished(i))
      => /\ ~isGenerating
         /\ observed = NoTx
         /\ toastId = NoToast
         /\ flows[i].ownToast \notin toasts \ dismissTimers

\* C7: at most one flow is in progress, and while one is in progress neither
\* trigger (Enter key, Generate button) is enabled
C7_SingleFlow ==
  /\ Cardinality(ActiveFlows) <= 1
  /\ ActiveFlows # { } => (~EnterEnabled /\ ~ButtonEnabled)

\* a flow is in progress and nothing but isGenerating holds the triggers back
C7_Witness ==
  /\ ActiveFlows # { }
  /\ ~isTransactionPending
  /\ ~isConfirming
  /\ Trim(prompt) # << >>
  /\ address
  /\ Len(flows) < MaxFlows

\* C8: the history holds at most 5 entries, newest first: with every
\* construction of a result a success (SpecHistory), entry k is the k-th most
\* recent result and only the oldest are missing
C8_HistoryBoundedNewestFirst ==
  /\ Len(generationHistory) <= HistoryKeep + 1
  /\ Len(generationHistory) =
       IF clock - 1 < HistoryKeep + 1 THEN clock - 1 ELSE HistoryKeep + 1
  /\ \A k \in 1..Len(generationHistory) :
       generationHistory[k].timestamp = clock - k

\* the oldest result has been evicted and an older entry is selected
C8_Witness ==
  /\ Len(generationHistory) = HistoryKeep + 1
  /\ generationHistory[HistoryKeep + 1].timestamp > 1
  /\ generatedImage = generationHistory[2]

\* C9: handleFileUpload stores the file iff its type starts with "image/" and
\* its size is at most 10 MiB; otherwise uploadedImage and
\* uploadedImagePreview stay as they were
AcceptableUpload(file) ==
  /\ Len(file.type) >= 6
  /\ \A k \in 1..6 : file.type[k] = ImagePrefix[k]
  /\ file.size <= 10 * 1024 * 1024

C9_UploadAcceptedIffValid ==
  [][\A file \in Files :
       handleFileUpload(file)
         => IF AcceptableUpload(file)
            THEN uploadedImage' = file
            ELSE UNCHANGED << uploadedImage, uploadedImagePreview >>]_vars

\* a file of exactly 10 MiB is in effect after a later upload was rejected
C9_Witness ==
  /\ uploadedImage.size = 10 * 1024 * 1024
  /\ notice \in { "File size must be less than 10MB", "Please upload an image file" }

\* C10: every flow has submitted exactly one payment and issued at most one
\* request, and payments are submitted by triggers only
C10_OnePaymentNoRetry ==
  /\ Len(txs) = Len(flows)
  /\ \A i \in 1..Len(flows) :
       /\ Cardinality(PaymentsOf(i)) = 1
       /\ Cardinality(RequestsOf(i)) <= 1

\* a flow has failed after issuing its request
C10_Witness ==
  \E i \in 1..Len(flows) :
    /\ flows[i].pc = "done"
    /\ flows[i].result \notin { "success", TimeoutMessage }
    /\ Cardinality(RequestsOf(i)) = 1
    /\ Cardinality(PaymentsOf(i)) = 1

\* C11: in the fixed-delay variant every flow that is past its single delay
\* has submitted its payment and issued exactly one request carrying its
\* prompt, whatever the status of the payment (pending in the wallet,
\* submitted and unconfirmed, rejected); before the delay has elapsed the
\* payment is submitted and no request is issued
C11_FixedDelayIgnoresPayment ==
  \A i \in 1..Len(flows) :
    variant = "fixed"
      => /\ Cardinality(PaymentsOf(i)) = 1
         /\ flows[i].pc = "delay" => RequestsOf(i) = { }
         /\ flows[i].pc \in { "fetch", "done" }
              => /\ Cardinality(RequestsOf(i)) = 1
                 /\ \A r \in RequestsOf(i) : requests[r].prompt = flows[i].prompt
                 /\ flows[i].result # TimeoutMessage

\* one flow has generated although the wallet rejected its payment, another
\* has issued its request while its payment is pending or unconfirmed
C11_Witness ==
  /\ variant = "fixed"
  /\ \E i, j \in 1..Len(flows) :
       /\ txs[flows[i].tx].status = "rejected"
       /\ flows[i].result = "success"
       /\ txs[flows[j].tx].status \in { "asked", "submitted" }
       /\ flows[j].pc = "fetch"
       /\ RequestsOf(j) # { }

\* C12: when the chain confirms the payment of a polling flow that has already
\* ended with the timeout, no request is issued (then or before) and
\* generatedImage, generationHistory and the ended flow stay as they were
C12_LateConfirmationGeneratesNothing ==
  [][\A t \in 1..Len(txs) :
       (/\ variant = "polling"
        /\ flows[txs[t].flow].pc = "done"
        /\ flows[txs[t].flow].result = TimeoutMessage
        /\ txs[t].status # "confirmed"
        /\ txs'[t].status = "confirmed")
         => /\ RequestsOf(txs[t].flow) = { }
            /\ requests' = requests
            /\ flows' = flows
            /\ UNCHANGED << generatedImage, generationHistory, isGenerating >>]_vars

\* a payment was confirmed after its flow had timed out, and nothing was
\* generated for it
C12_Witness ==
  \E t \in 1..Len(txs) :
    /\ variant = "polling"
    /\ txs[t].status = "confirmed"
    /\ ~txs[t].confInWait
    /\ flows[txs[t].flow].result = TimeoutMessage
    /\ RequestsOf(txs[t].flow) = { }
    /\ generatedImage = NoImage
    /\ generationHistory = << >>

\* a non-2xx answer, or one whose imageUrl is missing or is not a string
ErrorAnswer(resp) ==
  \/ resp.status < 200
  \/ resp.status > 299
  \/ resp.imageUrl = JsUndefined
  \/ resp.imageUrl.t # "string"

\* C13: when the endpoint answers a flow's request with a non-2xx status, or
\* with a 2xx body whose imageUrl is missing or is not a string, the handler
\* shows an error (the error text of the response when it carries one),
\* ends, and leaves generatedImage and generationHistory unchanged
C13_ErrorAnswerReported ==
  [][\A i \in 1..Len(flows), env \in ServerEnvs :
       (FetchRespond(i, env) /\ ErrorAnswer(POST(FormData(flows[i]), env)))
         => /\ notice' \notin { "", "Image generated successfully!" }
            /\ (POST(FormData(flows[i]), env).error.t = "string"
                  /\ POST(FormData(flows[i]), env).error.s # "")
                 => notice' = POST(FormData(flows[i]), env).error.s
            /\ flows'[i].pc = "done"
            /\ flows'[i].result = notice'
            /\ UNCHANGED << generatedImage, generationHistory >>]_vars

\* one flow was answered 2xx without a usable imageUrl, another non-2xx with
\* the server's error text, and nothing has been generated
C13_Witness ==
  \E i, j \in 1..Len(flows) :
    /\ flows[i].result = "Invalid image URL received from API"
    /\ flows[j].result \in
         { "Failed to generate image",
           "Server configuration error: Replicate API token not configured" }
    /\ notice = flows[j].result
    /\ generatedImage = NoImage
    /\ generationHistory = << >>

\* C14: when a flow's request is answered with a result, the recorded prompt
\* is "Reimagined: " followed by the request's prompt if the request carried
\* an image and exactly the request's prompt if it carried none, and it is the
\* prompt the endpoint echoes in its answer
C14_AnnotationMatchesRequest ==
  [][\A i \in 1..Len(flows), env \in ServerEnvs :
       (FetchRespond(i, env) /\ flows'[i].result = "success")
         => \A r \in RequestsOf(i) :
              /\ generatedImage'.prompt =
                   IF requests[r].image # NoFile
                   THEN ReimaginedPrefix \o requests[r].prompt
                   ELSE requests[r].prompt
              /\ generatedImage'.prompt = POST(requests[r], env).prompt
              /\ generationHistory'[1] = generatedImage'
              /\ requests[r].prompt = flows[i].prompt]_vars

\* a result generated from a request that carried an image
C14_Witness ==
  /\ generatedImage # NoImage
  /\ StartsWith(generatedImage.prompt, ReimaginedPrefix)
  /\ \E r \in 1..Len(requests) :
       /\ requests[r].image # NoFile
       /\ flows[requests[r].flow].result = "success"
       /\ generatedImage.prompt = ReimaginedPrefix \o requests[r].prompt

\* C15: a flow never makes more than 30 polls and is out of the wait after
\* the 30th, and (timers firing, requests being answered or failing) whenever
\* isGenerating is true it eventually becomes false again, with every flow
\* that was started ended
C15_ReturnsToIdle ==
  /\ [](\A i \in 1..Len(flows) :
          /\ flows[i].attempts <= maxAttempts
          /\ flows[i].pc = "wait" => flows[i].attempts < maxAttempts)
  /\ (isGenerating ~> (~isGenerating /\ ActiveFlows = { }))

\* the UI is idle again after a flow whose payment was never confirmed spent
\* all 30 polls in the wait
C15_Witness ==
  /\ ~isGenerating
  /\ ActiveFlows = { }
  /\ \E i \in 1..Len(flows) :
       /\ flows[i].attempts = maxAttempts
       /\ txs[flows[i].tx].status \in { "asked", "submitted" }
       /\ flows[i].pc = "done"

\* the request is a form with a non-empty prompt field
HasPrompt(req) ==
  req.multipart /\ req.prompt # NoPrompt /\ Len(req.prompt) > 0

\* the request made the handler throw: its body is no form, or the provider
\* run failed
ExceptionCaught(req, env) ==
  \/ ~req.multipart
  \/ HasPrompt(req) /\ env.token /\ env.provider = "throws"

C18_EndpointEnforcesPromptCheck ==
  (/\ posts > 0
   /\ exchange.req.multipart
   /\ exchange.req.prompt # NoPrompt
   /\ Trim(exchange.req.prompt) = << >>)
    => /\ exchange.resp.status = 400
       /\ ~exchange.resp.providerRan

\* C17: a flow takes its prompt and its image from the state in which it was
\* triggered and keeps them: whatever the user does to the prompt input and
\* to the upload meanwhile, its request carries that prompt and that image,
\* and its result records that prompt, annotated iff the request carried the
\* image
C17_TriggerTimeInputs ==
  [][/\ Len(flows') = Len(flows) + 1
        => /\ flows'[Len(flows')].prompt = prompt
           /\ flows'[Len(flows')].uploadedImage = uploadedImage
     /\ \A i \in 1..Len(flows) :
          /\ flows'[i].prompt = flows[i].prompt
          /\ flows'[i].uploadedImage = flows[i].uploadedImage
     /\ \A r \in 1..Len(requests') :
          /\ requests'[r].prompt = flows'[requests'[r].flow].prompt
          /\ requests'[r].image = flows'[requests'[r].flow].uploadedImage
     /\ \A i \in 1..Len(flows) :
          (flows[i].pc = "fetch" /\ flows'[i].result = "success")
            => /\ generatedImage'.prompt \in
                    { flows[i].prompt, ReimaginedPrefix \o flows[i].prompt }
               /\ (generatedImage'.prompt = ReimaginedPrefix \o flows[i].prompt)
                    <=> (\A r \in RequestsOf(i) : requests[r].image # NoFile)
               /\ generationHistory'[1] = generatedImage']_vars

\* the prompt was edited and the upload cleared while a flow was on its way;
\* its request and its result carry the prompt and the image of the trigger
C17_Witness ==
  \E i \in 1..Len(flows) :
    /\ flows[i].result = "success"
    /\ Trim(prompt) # << >>
    /\ prompt # flows[i].prompt
    /\ uploadedImage = NoFile
    /\ flows[i].uploadedImage # NoFile
    /\ \A r \in RequestsOf(i) : requests[r].image = flows[i].uploadedImage
    /\ generatedImage.prompt = ReimaginedPrefix \o flows[i].prompt

\* img is an entry of hist
InHistory(img, hist) == \E k \in 1..Len(hist) : hist[k] = img

\* C19: generatedImage is null or an entry of generationHistory; the history
\* changes only in a step that makes its new head the generatedImage, and a
\* step that changes generatedImage sets it to an entry of the history
C19_CurrentImageInHistory ==
  /\ [](generatedImage = NoImage \/ InHistory(generatedImage, generationHistory))
  /\ [][(generationHistory' # generationHistory
           => (generatedImage' = generationHistory'[1]
                 /\ generatedImage' # generatedImage))
        /\ (generatedImage' # generatedImage
              => InHistory(generatedImage', generationHistory'))]_vars

\* the oldest entry of a full history is selected after older results have
\* been evicted
C19_Witness ==
  /\ Len(generationHistory) = HistoryKeep + 1
  /\ generatedImage = generationHistory[HistoryKeep + 1]
  /\ generatedImage.timestamp > 1

\* C20: a click on "Send ETH" with a non-empty amount and a valid recipient
\* sends exactly one transaction to that recipient, records the id of the
\* pending toast, closes the dialog and clears amount and toAddress; with any
\* other input it sends nothing and leaves the dialog open and amount,
\* toAddress and toastId as they were
C20_HandleSendValidates ==
  [][ClickSend(MaxSends)
       => IF app.amount # << >> /\ IsAddress(app.toAddress)
          THEN /\ Len(app'.txs) = Len(app.txs) + 1
               /\ app'.txs[Len(app'.txs)].to = app.toAddress
               /\ app'.toastId # NoToast
               /\ app'.toastId \in app'.toasts
               /\ ~app'.isDialogOpen
               /\ app'.amount = << >>
               /\ app'.toAddress = << >>
          ELSE /\ app'.txs = app.txs
               /\ app'.isDialogOpen
               /\ app'.amount = app.amount
               /\ app'.toAddress = app.toAddress
               /\ app'.toastId = app.toastId]_vars

\* C21: when the chain confirms a transfer sent from the dialog, the success
\* notification is shown and its description names the amount (a decimal
\* worth the value that was sent) and the recipient of that transfer;
\* afterwards toastId is null and the transaction state is reset
C21_SuccessReportsTransfer ==
  [][\A t \in 1..Len(app.txs) :
       (app.txs[t].status = "submitted" /\ app'.txs[t].status = "confirmed")
         => /\ app'.notice = "Transaction successful!"
            /\ Len(app'.description) = 3
            /\ app'.description[1] = "Sent"
            /\ app'.description[3] = app.txs[t].to
            /\ IsDecimal(app'.description[2])
            /\ ParseEther(app'.description[2]) = app.txs[t].value
            /\ app'.toastId = NoToast
            /\ app'.observed = NoTx]_vars

====
